---- MODULE Spec2Model ----
(***************************************************************************)
(* Model of check_changelog.py: the changelog version type, the line       *)
(* parser, the remote loader with its retry loop, the four validation      *)
(* rules and the main program with its exit-code plumbing.                 *)
(*                                                                         *)
(* Python strings that the code inspects character by character (version   *)
(* strings, section category tokens) are sequences of one-character        *)
(* strings.  An optional value is <<>> for None and <<x>> for a value x.   *)
(* A call that may raise yields a record whose exc field names the         *)
(* exception ("" when the call returned).                                  *)
(***************************************************************************)
EXTENDS Integers, Sequences, FiniteSets, TLC

VARIABLES
    \* --- ChangelogVersion.from_str / __str__ applied to one string
    vparts,          \* the components the input string was built from, or None
    vs,              \* the input string handed to from_str
    vver,            \* outcome of from_str
    vres,            \* outcome of __str__
    vpc,
    \* --- Changelog.parse applied to one text
    pdata,           \* the text, as its sequence of stripped lines
    pres,            \* outcome of parse
    ppc,
    \* --- the four testers applied to one pair of documents
    rprev,           \* prev_changelog
    rcurr,           \* curr_changelog
    rres,            \* outcomes of the testers run so far, in order
    \* --- the program: main() under the __main__ try / except / finally
    pc,              \* position of the program
    attempts,        \* iterations of the retry loop of the running fetch
    flag,            \* fetch's flag
    changelog,       \* fetch's changelog
    fetchLog,        \* per fetch, the outcome of each attempt made
    fetched,         \* the fetches that have returned
    prev_changelog,
    curr_changelog,
    t,               \* index of the next tester in main's loop
    invoked,         \* testers called so far, in call order
    outcomes,        \* what each call gave: "pass", "fail" or "assert"
    reported,        \* the [FAIL] messages printed so far
    interrupted,     \* a KeyboardInterrupt reached the __main__ handler
    failure_code,    \* TestTool.failure_code
    exit_code        \* the process exit code, None while running

versionVars == <<vparts, vs, vver, vres, vpc>>
parseVars == <<pdata, pres, ppc>>
rulesVars == <<rprev, rcurr, rres>>
fetchVars == <<attempts, flag, changelog, fetchLog, fetched, prev_changelog, curr_changelog>>
mainVars == <<pc, t, invoked, outcomes, reported, interrupted, failure_code, exit_code>>
vars == <<versionVars, parseVars, rulesVars, fetchVars, mainVars>>

(***************************************************************************)
(* Bounds                                                                  *)
(***************************************************************************)
MaxDigits == 2       \* longest digit string used for major / minor / patch
MaxLines == 4        \* longest text handed to parse on its own
MaxPrevItems == 2    \* longest prev_changelog handed to the testers on their own
MaxCurrItems == 3    \* longest curr_changelog handed to the testers on their own
MaxRetries == 3      \* fetch's retry (the source's default is 10)

(***************************************************************************)
(* Generic helpers                                                         *)
(***************************************************************************)
None == <<>>
Some(x) == <<x>>

Take(s, n) == SubSeq(s, 1, n)
Drop(s, n) == SubSeq(s, n + 1, Len(s))

\* 0-based indexing as in the source
At(s, i) == s[i + 1]

(***************************************************************************)
(* str.upper(), int() and "{}".format(int) on character sequences          *)
(***************************************************************************)
Digits == {"0", "1", "2", "3", "4", "5", "6", "7", "8", "9"}

UpperChar(c) ==
    CASE c = "a" -> "A" [] c = "b" -> "B" [] c = "c" -> "C" [] c = "d" -> "D"
      [] c = "e" -> "E" [] c = "f" -> "F" [] c = "g" -> "G" [] c = "h" -> "H"
      [] c = "i" -> "I" [] c = "j" -> "J" [] c = "k" -> "K" [] c = "l" -> "L"
      [] c = "m" -> "M" [] c = "n" -> "N" [] c = "o" -> "O" [] c = "p" -> "P"
      [] c = "q" -> "Q" [] c = "r" -> "R" [] c = "s" -> "S" [] c = "t" -> "T"
      [] c = "u" -> "U" [] c = "v" -> "V" [] c = "w" -> "W" [] c = "x" -> "X"
      [] c = "y" -> "Y" [] c = "z" -> "Z"
      [] OTHER -> c

Upper(s) == [i \in 1..Len(s) |-> UpperChar(s[i])]

DigitVal(c) ==
    CASE c = "0" -> 0 [] c = "1" -> 1 [] c = "2" -> 2 [] c = "3" -> 3
      [] c = "4" -> 4 [] c = "5" -> 5 [] c = "6" -> 6 [] c = "7" -> 7
      [] c = "8" -> 8 [] c = "9" -> 9

DigitChar(n) ==
    CASE n = 0 -> "0" [] n = 1 -> "1" [] n = 2 -> "2" [] n = 3 -> "3"
      [] n = 4 -> "4" [] n = 5 -> "5" [] n = 6 -> "6" [] n = 7 -> "7"
      [] n = 8 -> "8" [] n = 9 -> "9"

RECURSIVE IntOf(_)
IntOf(digs) ==
    IF digs = <<>> THEN 0
    ELSE IntOf(Take(digs, Len(digs) - 1)) * 10 + DigitVal(digs[Len(digs)])

RECURSIVE DecStr(_)
DecStr(n) ==
    IF n < 10 THEN <<DigitChar(n)>>
    ELSE DecStr(n \div 10) \o <<DigitChar(n % 10)>>

(***************************************************************************)
(* ChangelogVersion                                                        *)
(***************************************************************************)
ChangelogVersion(major, minor, patch, pre, build) ==
    [major |-> major, minor |-> minor, patch |-> patch, pre |-> pre, build |-> build]

\* length of the longest prefix of s made of digits (\d+ is greedy, and the
\* character that must follow is never a digit)
RECURSIVE DigitRun(_)
DigitRun(s) ==
    IF s # <<>> /\ Head(s) \in Digits THEN 1 + DigitRun(Tail(s)) ELSE 0

\* length of the longest prefix of s without "+"  ([^\+]+ is greedy, and what
\* must follow is "+" or the end)
RECURSIVE NonPlusRun(_)
NonPlusRun(s) ==
    IF s # <<>> /\ Head(s) # "+" THEN 1 + NonPlusRun(Tail(s)) ELSE 0

\* ChangelogVersion.PARSER.match: None, or the named groups
PARSER_match(s) ==
    LET n1 == DigitRun(s)
        r1 == Drop(s, n1)
    IN  IF n1 = 0 \/ r1 = <<>> \/ Head(r1) # "." THEN None
        ELSE
        LET s2 == Tail(r1)
            n2 == DigitRun(s2)
            r2 == Drop(s2, n2)
        IN  IF n2 = 0 \/ r2 = <<>> \/ Head(r2) # "." THEN None
            ELSE
            LET s3 == Tail(r2)
                n3 == DigitRun(s3)
                r3 == Drop(s3, n3)
                hasPre == r3 # <<>> /\ Head(r3) = "-" /\ NonPlusRun(Tail(r3)) > 0
                np == IF hasPre THEN NonPlusRun(Tail(r3)) ELSE 0
                r4 == IF hasPre THEN Drop(Tail(r3), np) ELSE r3
                hasBuild == r4 # <<>> /\ Head(r4) = "+" /\ Len(r4) > 1
                r5 == IF hasBuild THEN <<>> ELSE r4
            IN  IF n3 = 0 \/ r5 # <<>> THEN None
                ELSE Some([major |-> Take(s, n1),
                           minor |-> Take(s2, n2),
                           patch |-> Take(s3, n3),
                           pre   |-> IF hasPre THEN Some(Take(Tail(r3), np)) ELSE None,
                           build |-> IF hasBuild THEN Some(Tail(r4)) ELSE None])

UNRELEASED == <<"U", "N", "R", "E", "L", "E", "A", "S", "E", "D">>
Unreleased == <<"U", "n", "r", "e", "l", "e", "a", "s", "e", "d">>

\* from_str: [exc |-> "" or the exception raised, ver |-> the fields set]
ChangelogVersion_from_str(version) ==
    IF Upper(version) = UNRELEASED
    THEN [exc |-> "", ver |-> ChangelogVersion(0, 0, 0, None, None)]
    ELSE LET match_obj == PARSER_match(version)
         IN  IF match_obj = None
             THEN [exc |-> "ValueError", ver |-> ChangelogVersion(0, 0, 0, None, None)]
             ELSE [exc |-> "",
                   ver |-> ChangelogVersion(IntOf(match_obj[1].major),
                                            IntOf(match_obj[1].minor),
                                            IntOf(match_obj[1].patch),
                                            match_obj[1].pre,
                                            match_obj[1].build)]

ChangelogVersion_str_NoBuild(v) ==
    IF v.major = 0 /\ v.minor = 0 /\ v.patch = 0 THEN Unreleased
    ELSE LET base == DecStr(v.major) \o <<".">> \o DecStr(v.minor) \o <<".">> \o DecStr(v.patch)
         IN  IF v.pre # None THEN base \o <<"-">> \o v.pre[1] ELSE base

ChangelogVersion_str(v) ==
    IF v.major = 0 /\ v.minor = 0 /\ v.patch = 0 THEN Unreleased
    ELSE LET base  == DecStr(v.major) \o <<".">> \o DecStr(v.minor) \o <<".">> \o DecStr(v.patch)
             base2 == IF v.pre # None THEN base \o <<"-">> \o v.pre[1] ELSE base
         IN  IF v.build # None THEN base2 \o <<"+">> \o v.build[1] ELSE base2

ChangelogVersion_eq(a, b) ==
    /\ a.major = b.major /\ a.minor = b.minor /\ a.patch = b.patch
    /\ a.pre = b.pre /\ a.build = b.build

\* the comparison without its equality guards
ChangelogVersion_lt_Unguarded(a, b) ==
    \/ a.major < b.major
    \/ a.minor < b.minor
    \/ a.patch < b.patch

ChangelogVersion_lt(a, b) ==
    \/ a.major < b.major
    \/ (a.major = b.major /\ a.minor < b.minor)
    \/ (a.major = b.major /\ a.minor = b.minor /\ a.patch < b.patch)

(***************************************************************************)
(* ChangelogSectionType, ChangelogSection, ChangelogItem, Changelog        *)
(***************************************************************************)
ADDED == <<"A", "D", "D", "E", "D">>
CHANGED == <<"C", "H", "A", "N", "G", "E", "D">>
FIXED == <<"F", "I", "X", "E", "D">>

\* the member names of the enum
ChangelogSectionType ==
    { <<"U", "N", "D", "E", "F", "I", "N", "E", "D">>,
      ADDED,
      CHANGED,
      <<"D", "E", "P", "R", "E", "C", "A", "T", "E", "D">>,
      <<"R", "E", "M", "O", "V", "E", "D">>,
      FIXED,
      <<"S", "E", "C", "U", "R", "I", "T", "Y">> }

\* a section's text is the sequence of the pieces appended to it; "" is <<>>
ChangelogSection(type, text) == [type |-> type, text |-> text]

ChangelogSection_eq(a, b) == a.type = b.type /\ a.text = b.text

ChangelogItem(version, date, sections) ==
    [version |-> version, date |-> date, sections |-> sections]

\* list equality: same length and pairwise ==
Sections_eq(a, b) ==
    /\ Len(a) = Len(b)
    /\ \A i \in 1..Len(a) : ChangelogSection_eq(a[i], b[i])

ChangelogItem_eq_NoDate(a, b) ==
    /\ ChangelogVersion_eq(a.version, b.version)
    /\ Sections_eq(a.sections, b.sections)

ChangelogItem_eq(a, b) ==
    /\ ChangelogVersion_eq(a.version, b.version)
    /\ a.date = b.date
    /\ Sections_eq(a.sections, b.sections)

Changelog(items) == [items |-> items]

(***************************************************************************)
(* Lines of a text, after line.strip(), by what parse tests on them        *)
(***************************************************************************)
Blank == [k |-> "blank"]                      \* line == ""
Title == [k |-> "title"]                      \* line.startswith("# ")
\* line.startswith("## "); match: ITEM_PARSER matches, with these groups
ItemLine(version, date) == [k |-> "item", match |-> TRUE, version |-> version, date |-> date]
ItemNoMatch == [k |-> "item", match |-> FALSE]
\* line.startswith("### "); match: SECTION_PARSER matches, with this group
SectionLine(type) == [k |-> "section", match |-> TRUE, type |-> type]
SectionNoMatch == [k |-> "section", match |-> FALSE]
\* any other line
TextLine(line) == [k |-> "text", line |-> line]

Return(value) == [exc |-> "", ret |-> value]
Raise(exc) == [exc |-> exc, ret |-> None]

\* changelog.items[-1].sections.append(section) / section.text += ...
LastItem(cl) == cl.items[Len(cl.items)]
WithLastItem(cl, item) == [cl EXCEPT !.items[Len(cl.items)] = item]
LastSection(item) == item.sections[Len(item.sections)]
WithLastSection(item, section) == [item EXCEPT !.sections[Len(item.sections)] = section]

\* the body of the for loop of parse, from line number i on; changelog is
\* None or Some(document)
RECURSIVE parse_lines(_, _, _)
parse_lines(data, i, cl) ==
    IF i > Len(data) THEN Return(cl)
    ELSE
    LET line == data[i]
    IN  CASE line.k = "blank" -> parse_lines(data, i + 1, cl)
          [] line.k = "title" ->
                IF cl # None THEN Return(None)
                ELSE parse_lines(data, i + 1, Some(Changelog(<<>>)))
          [] line.k = "item" ->
                IF ~line.match THEN Return(None)
                ELSE LET v == ChangelogVersion_from_str(line.version)
                     IN  IF v.exc # "" THEN Raise(v.exc)
                         ELSE IF cl = None THEN Raise("AttributeError")
                         ELSE parse_lines(data, i + 1,
                                Some(Changelog(Append(cl[1].items,
                                        ChangelogItem(v.ver, line.date, <<>>)))))
          [] line.k = "section" ->
                IF cl = None THEN Raise("AttributeError")
                ELSE IF cl[1].items = <<>> THEN Return(None)
                ELSE IF ~line.match THEN Return(None)
                ELSE IF Upper(line.type) \notin ChangelogSectionType THEN Raise("KeyError")
                ELSE LET item == LastItem(cl[1])
                         section == ChangelogSection(Upper(line.type), <<>>)
                     IN  parse_lines(data, i + 1,
                            Some(WithLastItem(cl[1],
                                    [item EXCEPT !.sections = Append(@, section)])))
          [] line.k = "text" ->
                IF cl = None THEN Raise("AttributeError")
                ELSE IF cl[1].items = <<>> THEN Raise("IndexError")
                ELSE IF LastItem(cl[1]).sections = <<>> THEN Raise("IndexError")
                ELSE LET item == LastItem(cl[1])
                         section == LastSection(item)
                     IN  parse_lines(data, i + 1,
                            Some(WithLastItem(cl[1],
                                    WithLastSection(item,
                                        [section EXCEPT !.text = @ \o <<line.line, "\n">>]))))

Changelog_parse(data) == parse_lines(data, 1, None)

\* changelog.items[::-1]
RECURSIVE Reverse(_)
Reverse(s) == IF s = <<>> THEN <<>> ELSE Append(Reverse(Tail(s)), Head(s))

(***************************************************************************)
(* Test cases                                                              *)
(***************************************************************************)
Passed == [out |-> "pass", msg |-> ""]
Failed(msg) == [out |-> "fail", msg |-> msg]
AssertionError == [out |-> "assert", msg |-> ""]

MsgRemoved == "It is not allowed to remove items from changelog."
MsgModified == "It is not allowed to modify items in changelog."
MsgVersions == "Changelog items should have increasing versions."
MsgNoSection == "There must be at lease one section for each changelog item."
MsgEmptySection == "Empty section is not allowed."

RECURSIVE ProperlyChanged_loop(_, _, _)
ProperlyChanged_loop(prev, curr, i) ==
    IF i >= Len(prev.items) THEN Passed
    ELSE IF i >= Len(curr.items) THEN Failed(MsgRemoved)
    ELSE IF ~ChangelogItem_eq(At(prev.items, i), At(curr.items, i)) THEN Failed(MsgModified)
    ELSE ProperlyChanged_loop(prev, curr, i + 1)

TesterChangelogProperlyChanged_test(prev, curr) == ProperlyChanged_loop(prev, curr, 0)

\* for i in range(n): ... items[start + i] against items[start + i - 1]
RECURSIVE ItemsVersion_loop(_, _, _)
ItemsVersion_loop(curr, start, i) ==
    IF i >= Len(curr.items) - start THEN Passed
    ELSE IF ChangelogVersion_lt(At(curr.items, start + i).version,
                                At(curr.items, start + i - 1).version)
         THEN Failed(MsgVersions)
    ELSE ItemsVersion_loop(curr, start, i + 1)

TesterNewChangelogItemsVersion_test(prev, curr) ==
    IF ~(Len(prev.items) <= Len(curr.items)) THEN AssertionError
    ELSE LET start == IF Len(prev.items) = 0 THEN 1 ELSE Len(prev.items)
         IN  ItemsVersion_loop(curr, start, 0)

RECURSIVE ItemsHasSection_loop(_)
ItemsHasSection_loop(changelog_diff_items) ==
    IF changelog_diff_items = <<>> THEN Passed
    ELSE IF Len(Head(changelog_diff_items).sections) = 0 THEN Failed(MsgNoSection)
    ELSE ItemsHasSection_loop(Tail(changelog_diff_items))

\* the slice taken one item too far
TesterNewChangelogItemsHasSection_test_SkipFirst(prev, curr) ==
    IF ~(Len(prev.items) <= Len(curr.items)) THEN AssertionError
    ELSE ItemsHasSection_loop(Drop(curr.items, Len(prev.items) + 1))

TesterNewChangelogItemsHasSection_test(prev, curr) ==
    IF ~(Len(prev.items) <= Len(curr.items)) THEN AssertionError
    ELSE ItemsHasSection_loop(Drop(curr.items, Len(prev.items)))

\* only the first section looked at
SomeEmptyText_FirstOnly(sections) ==
    sections # <<>> /\ Head(sections).text = <<>>

\* for section in item.sections: TRUE when one has text == ""
RECURSIVE SomeEmptyText(_)
SomeEmptyText(sections) ==
    IF sections = <<>> THEN FALSE
    ELSE IF Head(sections).text = <<>> THEN TRUE
    ELSE SomeEmptyText(Tail(sections))

RECURSIVE SectionsHasText_loop(_)
SectionsHasText_loop(changelog_diff_items) ==
    IF changelog_diff_items = <<>> THEN Passed
    ELSE IF ~(Len(Head(changelog_diff_items).sections) > 0) THEN AssertionError
    ELSE IF SomeEmptyText(Head(changelog_diff_items).sections) THEN Failed(MsgEmptySection)
    ELSE SectionsHasText_loop(Tail(changelog_diff_items))

TesterNewChangelogSectionsHasText_test(prev, curr) ==
    IF ~(Len(prev.items) <= Len(curr.items)) THEN AssertionError
    ELSE SectionsHasText_loop(Drop(curr.items, Len(prev.items)))

\* main's list of testers
testers ==
    << "TesterChangelogProperlyChanged",
       "TesterNewChangelogItemsVersion",
       "TesterNewChangelogItemsHasSection",
       "TesterNewChangelogSectionsHasText" >>

\* tester.test(prev_changelog, curr_changelog)
tester_test(tester, prev, curr) ==
    CASE tester = "TesterChangelogProperlyChanged" ->
            TesterChangelogProperlyChanged_test(prev, curr)
      [] tester = "TesterNewChangelogItemsVersion" ->
            TesterNewChangelogItemsVersion_test(prev, curr)
      [] tester = "TesterNewChangelogItemsHasSection" ->
            TesterNewChangelogItemsHasSection_test(prev, curr)
      [] tester = "TesterNewChangelogSectionsHasText" ->
            TesterNewChangelogSectionsHasText_test(prev, curr)

(***************************************************************************)
(* Each specification below drives one part of the program and leaves the  *)
(* variables of the other parts at these values.                           *)
(***************************************************************************)
NoVersion == [exc |-> "", ver |-> ChangelogVersion(0, 0, 0, None, None)]

VersionIdle ==
    /\ vparts = None /\ vs = <<>> /\ vver = NoVersion /\ vres = <<>> /\ vpc = "idle"

ParseIdle ==
    /\ pdata = <<>> /\ pres = Return(None) /\ ppc = "idle"

RulesIdle ==
    /\ rprev = Changelog(<<>>) /\ rcurr = Changelog(<<>>) /\ rres = <<>>

NoFetchLog == [prev |-> <<>>, curr |-> <<>>]

FetchIdle ==
    /\ attempts = 0 /\ flag = FALSE /\ changelog = None
    /\ fetchLog = NoFetchLog /\ fetched = {}
    /\ prev_changelog = None /\ curr_changelog = None

MainIdle ==
    /\ pc = "idle" /\ t = 0 /\ invoked = <<>> /\ outcomes = <<>> /\ reported = <<>>
    /\ interrupted = FALSE /\ failure_code = 0 /\ exit_code = None

(***************************************************************************)
(* Inputs of the version machine                                           *)
(***************************************************************************)
\* digit strings over "0" and "1", with and without leading zeros
RECURSIVE DigitStrs(_)
DigitStrs(n) ==
    IF n = 0 THEN {}
    ELSE {<<"0">>, <<"1">>}
         \cup {d \o <<c>> : d \in DigitStrs(n - 1), c \in {"0", "1"}}

PreTokens == {None, Some(<<"a">>), Some(<<"a", "-", "b">>)}
BuildTokens == {None, Some(<<"b">>), Some(<<"b", "+", "a">>), Some(<<"b", "-", "a">>)}

VersionParts ==
    [major : DigitStrs(MaxDigits), minor : DigitStrs(MaxDigits), patch : DigitStrs(MaxDigits),
     pre : PreTokens, build : BuildTokens]

\* the string major.minor.patch[-pre][+build] built from its components
Render(p) ==
    p.major \o <<".">> \o p.minor \o <<".">> \o p.patch
        \o (IF p.pre # None THEN <<"-">> \o p.pre[1] ELSE <<>>)
        \o (IF p.build # None THEN <<"+">> \o p.build[1] ELSE <<>>)

\* strings that are not of that form
OtherVersionStrings ==
    { Unreleased,
      <<"u", "n", "r", "e", "l", "e", "a", "s", "e", "d">>,
      UNRELEASED,
      <<"1", ".", "0">>,
      <<"1", ".", "0", ".", "0", "-">>,
      <<"1", ".", "0", ".", "0", "+">>,
      <<"1", ".", "0", ".", "0", "-", "+", "b">>,
      <<"1", ".", "0", ".", "0", "-", "a", "+">>,
      <<"1", ".", "0", ".", "0", "a">>,
      <<"v", "1", ".", "0", ".", "0">>,
      <<>> }

InitVersion ==
    /\ \/ \E p \in VersionParts : vparts = Some(p) /\ vs = Render(p)
       \/ \E s \in OtherVersionStrings : vparts = None /\ vs = s
    /\ vver = NoVersion
    /\ vres = <<>>
    /\ vpc = "from_str"
    /\ ParseIdle /\ RulesIdle /\ FetchIdle /\ MainIdle

\* version.from_str(vs)
FromStr ==
    /\ vpc = "from_str"
    /\ vver' = ChangelogVersion_from_str(vs)
    /\ vpc' = IF vver'.exc = "" THEN "str" ELSE "raised"
    /\ UNCHANGED <<vparts, vs, vres, parseVars, rulesVars, fetchVars, mainVars>>

\* str(version)
Str ==
    /\ vpc = "str"
    /\ vres' = ChangelogVersion_str(vver.ver)
    /\ vpc' = "done"
    /\ UNCHANGED <<vparts, vs, vver, parseVars, rulesVars, fetchVars, mainVars>>

NextVersion == FromStr \/ Str

SpecVersion == InitVersion /\ [][NextVersion]_vars

(***************************************************************************)
(* Changelog.parse on its own                                              *)
(***************************************************************************)
V100 == <<"1", ".", "0", ".", "0">>
V110 == <<"1", ".", "1", ".", "0">>
V120 == <<"1", ".", "2", ".", "0">>
V090 == <<"0", ".", "9", ".", "0">>
Added == <<"A", "d", "d", "e", "d">>
Changed == <<"c", "h", "a", "n", "g", "e", "d">>
Date1 == Some("2020-01-01")

\* one line of each shape parse distinguishes
Lines ==
    { Blank,
      Title,
      ItemLine(V100, Date1),                 \* ## [1.0.0] - 2020-01-01
      ItemLine(<<"x">>, None),               \* ## [x]
      ItemNoMatch,                           \* ## 1.0.0
      SectionLine(Added),                    \* ### Added
      SectionLine(<<"F", "o", "o">>),        \* ### Foo
      SectionNoMatch,                        \* ### Added now
      TextLine("x") }

Texts == UNION {[1..n -> Lines] : n \in 0..MaxLines}

InitParse ==
    /\ pdata \in Texts
    /\ pres = Return(None)
    /\ ppc = "parse"
    /\ VersionIdle /\ RulesIdle /\ FetchIdle /\ MainIdle

\* Changelog.parse(pdata)
Parse ==
    /\ ppc = "parse"
    /\ pres' = Changelog_parse(pdata)
    /\ ppc' = "done"
    /\ UNCHANGED <<pdata, versionVars, rulesVars, fetchVars, mainVars>>

NextParse == Parse

SpecParse == InitParse /\ [][NextParse]_vars

(***************************************************************************)
(* The four testers on their own, on every pair of documents built from    *)
(* these items                                                             *)
(***************************************************************************)
TextX == <<"x", "\n">>
TextY == <<"y", "\n">>
PreRc == Some(<<"r", "c">>)
BuildB == Some(<<"b">>)

Items ==
    { ChangelogItem(ChangelogVersion(1, 0, 0, None, None), Date1,
                    <<ChangelogSection(ADDED, TextX)>>),
      \* the same but for pre
      ChangelogItem(ChangelogVersion(1, 0, 0, PreRc, None), Date1,
                    <<ChangelogSection(ADDED, TextX)>>),
      \* the same but for the date
      ChangelogItem(ChangelogVersion(1, 0, 0, None, None), None,
                    <<ChangelogSection(ADDED, TextX)>>),
      ChangelogItem(ChangelogVersion(1, 1, 0, None, BuildB), Date1,
                    <<ChangelogSection(ADDED, TextX), ChangelogSection(FIXED, TextY)>>),
      \* the same but for the order of the sections
      ChangelogItem(ChangelogVersion(1, 1, 0, None, BuildB), Date1,
                    <<ChangelogSection(FIXED, TextY), ChangelogSection(ADDED, TextX)>>),
      \* no section
      ChangelogItem(ChangelogVersion(0, 2, 0, None, None), Date1, <<>>),
      \* a section without text after one with text
      ChangelogItem(ChangelogVersion(1, 0, 1, None, None), Date1,
                    <<ChangelogSection(ADDED, TextX), ChangelogSection(CHANGED, <<>>)>>) }

Documents(n) == {Changelog(items) : items \in UNION {[1..k -> Items] : k \in 0..n}}

InitRules ==
    /\ rprev \in Documents(MaxPrevItems)
    /\ rcurr \in Documents(MaxCurrItems)
    /\ rres = <<>>
    /\ VersionIdle /\ ParseIdle /\ FetchIdle /\ MainIdle

\* for tester in testers: tester.test(rprev, rcurr), the outcomes in order
RunTesters ==
    /\ rres = <<>>
    /\ rres' = [k \in 1..Len(testers) |-> tester_test(testers[k], rprev, rcurr)]
    /\ UNCHANGED <<rprev, rcurr, versionVars, parseVars, fetchVars, mainVars>>

NextRules == RunTesters

SpecRules == InitRules /\ [][NextRules]_vars

(***************************************************************************)
(* The program: Changelog.fetch, main() and the __main__ block             *)
(***************************************************************************)
\* what urlopen(...).read().decode() gives on one attempt
NetworkError == [k |-> "error"]
Body(data) == [k |-> "body", data |-> data]

Entry100 == <<ItemLine(V100, Date1), SectionLine(Added), TextLine("x")>>
Entry110 == <<ItemLine(V110, Date1), SectionLine(Changed), TextLine("y")>>
Entry090 == <<ItemLine(V090, None), SectionLine(Added), TextLine("x")>>

\* the files served, newest entry first
Files ==
    { <<Title>>,                                                           \* no entry
      <<Title>> \o Entry100,                                               \* 1.0.0
      <<Title, ItemLine(V100, Date1), SectionLine(Added), TextLine("z")>>, \* 1.0.0 reworded
      <<Title>> \o Entry110 \o Entry100,                                   \* 1.0.0, 1.1.0
      <<Title>> \o Entry090 \o Entry100,                                   \* 1.0.0, 0.9.0
      <<Title, ItemLine(V110, Date1)>> \o Entry100,                        \* 1.1.0 has no section
      <<Title, ItemLine(V110, Date1), SectionLine(Added)>> \o Entry100,    \* 1.1.0 has an empty section
      \* 1.0.0, 1.1.0 without section, 1.2.0 with an empty section
      <<Title, ItemLine(V120, Date1), SectionLine(Added), ItemLine(V110, Date1)>> \o Entry100,
      \* 1.0.0, 1.1.0 with an empty section, 1.2.0 without section
      <<Title, ItemLine(V120, Date1), ItemLine(V110, Date1), SectionLine(Added)>> \o Entry100,
      <<Title, Title>>,                                                    \* parse returns None
      <<TextLine("x"), Title>> }                                           \* parse raises

Responses == {NetworkError} \cup {Body(f) : f \in Files}

\* the body of the try of one iteration of fetch's loop: urlopen, read,
\* decode and Changelog.parse; it returns parse's result or raises
fetch_body(resp) ==
    IF resp.k = "error" THEN Raise("URLError") ELSE Changelog_parse(resp.data)

\* the values the try / except leaves in changelog and flag when its body
\* ended as r, retrying when parse returned None
fetch_try_RetryOnNone(r) ==
    IF r.exc # "" THEN [changelog |-> None, flag |-> FALSE]
    ELSE [changelog |-> r.ret, flag |-> r.ret # None]

\* the values the try / except leaves in changelog and flag when its body
\* ended as r
fetch_try(r) ==
    IF r.exc # "" THEN [changelog |-> None, flag |-> FALSE]
    ELSE [changelog |-> r.ret, flag |-> TRUE]

\* what happened on an attempt: it raised (in urlopen or inside parse), parse
\* returned None, or parse returned a document
AttemptKind(r) ==
    IF r.exc # "" THEN "raise" ELSE IF r.ret = None THEN "none" ELSE "doc"

MsgCannotFetch == "Cannot fetch changelog, or fetched wrong changelog format."
MsgUnexpected == "Unexpected error."

Init ==
    /\ pc = "parse_args"
    /\ t = 0 /\ invoked = <<>> /\ outcomes = <<>> /\ reported = <<>>
    /\ interrupted = FALSE /\ failure_code = 0 /\ exit_code = None
    /\ FetchIdle
    /\ VersionIdle /\ ParseIdle /\ RulesIdle

Fetching == IF pc = "fetch_prev" THEN "prev" ELSE "curr"

\* parser.parse_args(): returns, or exits (SystemExit) on a bad command line
ParseArgs ==
    /\ pc = "parse_args"
    /\ \/ pc' = "fetch_prev"
       \/ pc' = "except"
    /\ UNCHANGED <<t, invoked, outcomes, reported, interrupted, failure_code, exit_code>>
    /\ UNCHANGED <<fetchVars, versionVars, parseVars, rulesVars>>

\* one iteration of "for _ in range(retry)" in Changelog.fetch
FetchAttempt ==
    /\ pc \in {"fetch_prev", "fetch_curr"}
    /\ attempts < MaxRetries
    /\ ~flag
    /\ \E resp \in Responses :
          LET r == fetch_body(resp)
              left == fetch_try(r)
          IN  /\ changelog' = left.changelog
              /\ flag' = left.flag
              /\ fetchLog' = [fetchLog EXCEPT ![Fetching] = Append(@, AttemptKind(r))]
    /\ attempts' = attempts + 1
    /\ UNCHANGED <<fetched, prev_changelog, curr_changelog>>
    /\ UNCHANGED <<mainVars, versionVars, parseVars, rulesVars>>

\* the loop of fetch is over: reverse the items and return to main
FetchReturn ==
    /\ pc \in {"fetch_prev", "fetch_curr"}
    /\ flag \/ attempts >= MaxRetries
    /\ LET result == IF changelog # None
                     THEN Some([changelog[1] EXCEPT !.items = Reverse(@)])
                     ELSE None
       IN  IF pc = "fetch_prev"
           THEN prev_changelog' = result /\ UNCHANGED curr_changelog
           ELSE curr_changelog' = result /\ UNCHANGED prev_changelog
    /\ fetched' = fetched \cup {Fetching}
    /\ attempts' = 0 /\ flag' = FALSE /\ changelog' = None
    /\ pc' = IF pc = "fetch_prev" THEN "fetch_curr" ELSE "gate"
    /\ UNCHANGED fetchLog
    /\ UNCHANGED <<t, invoked, outcomes, reported, interrupted, failure_code, exit_code>>
    /\ UNCHANGED <<versionVars, parseVars, rulesVars>>

\* if prev_changelog is None or curr_changelog is None: TestTool.test_fail(...)
\* whose exit() raises SystemExit
Gate ==
    /\ pc = "gate"
    /\ \/ /\ prev_changelog = None \/ curr_changelog = None
          /\ reported' = Append(reported, MsgCannotFetch)
          /\ failure_code' = 1
          /\ pc' = "except"
       \/ /\ ~(prev_changelog = None \/ curr_changelog = None)
          /\ pc' = "testers"
          /\ UNCHANGED <<reported, failure_code>>
    /\ UNCHANGED <<t, invoked, outcomes, interrupted, exit_code>>
    /\ UNCHANGED <<fetchVars, versionVars, parseVars, rulesVars>>

\* one iteration of "for tester in testers" that stops at the first failure
RunTester_BreakOnFail ==
    /\ pc = "testers"
    /\ t < Len(testers)
    /\ LET tester == At(testers, t)
           r == tester_test(tester, prev_changelog[1], curr_changelog[1])
       IN  /\ invoked' = Append(invoked, tester)
           /\ outcomes' = Append(outcomes, r)
           /\ IF r.out = "fail"
              THEN reported' = Append(reported, r.msg) /\ failure_code' = 1 /\ t' = Len(testers)
              ELSE UNCHANGED <<reported, failure_code>> /\ t' = t + 1
    /\ UNCHANGED <<pc, interrupted, exit_code>>
    /\ UNCHANGED <<fetchVars, versionVars, parseVars, rulesVars>>

\* one iteration of "for tester in testers": the call, test_fail without
\* instant_fail on a failure, nothing on an AssertionError
RunTester ==
    /\ pc = "testers"
    /\ t < Len(testers)
    /\ LET tester == At(testers, t)
           r == tester_test(tester, prev_changelog[1], curr_changelog[1])
       IN  /\ invoked' = Append(invoked, tester)
           /\ outcomes' = Append(outcomes, r)
           /\ IF r.out = "fail"
              THEN reported' = Append(reported, r.msg) /\ failure_code' = 1
              ELSE UNCHANGED <<reported, failure_code>>
    /\ t' = t + 1
    /\ UNCHANGED <<pc, interrupted, exit_code>>
    /\ UNCHANGED <<fetchVars, versionVars, parseVars, rulesVars>>

\* main() returns
MainReturn ==
    /\ pc = "testers"
    /\ t = Len(testers)
    /\ pc' = "finally"
    /\ UNCHANGED <<t, invoked, outcomes, reported, interrupted, failure_code, exit_code>>
    /\ UNCHANGED <<fetchVars, versionVars, parseVars, rulesVars>>

\* "except:" catches the SystemExit; test_fail("Unexpected error.") exits again
Except ==
    /\ pc = "except"
    /\ reported' = Append(reported, MsgUnexpected)
    /\ failure_code' = 1
    /\ pc' = "finally"
    /\ UNCHANGED <<t, invoked, outcomes, interrupted, exit_code>>
    /\ UNCHANGED <<fetchVars, versionVars, parseVars, rulesVars>>

\* an external interrupt while main() runs: not an Exception, so it passes
\* through fetch's handler to "except KeyboardInterrupt", which only logs
KeyboardInterrupt ==
    /\ pc \in {"parse_args", "fetch_prev", "fetch_curr", "gate", "testers"}
    /\ interrupted' = TRUE
    /\ pc' = "finally"
    /\ UNCHANGED <<t, invoked, outcomes, reported, failure_code, exit_code>>
    /\ UNCHANGED <<fetchVars, versionVars, parseVars, rulesVars>>

\* finally: TestTool.test_finish()
Finally ==
    /\ pc = "finally"
    /\ exit_code' = Some(failure_code)
    /\ pc' = "done"
    /\ UNCHANGED <<t, invoked, outcomes, reported, interrupted, failure_code>>
    /\ UNCHANGED <<fetchVars, versionVars, parseVars, rulesVars>>

Next ==
    \/ ParseArgs \/ FetchAttempt \/ FetchReturn \/ Gate \/ RunTester \/ MainReturn
    \/ Except \/ KeyboardInterrupt \/ Finally

Spec == Init /\ [][Next]_vars

(***************************************************************************)
(* Properties                                                              *)
(***************************************************************************)
Range(s) == {s[i] : i \in 1..Len(s)}
Min(a, b) == IF a <= b THEN a ELSE b
Max(a, b) == IF a >= b THEN a ELSE b
IsPrefix(s, u) == Len(s) <= Len(u) /\ s = Take(u, Len(s))

BothLoaded ==
    /\ fetched = {"prev", "curr"}
    /\ prev_changelog # None
    /\ curr_changelog # None

\* a fetch has returned None
FetchFailed ==
    \/ ("prev" \in fetched /\ prev_changelog = None)
    \/ ("curr" \in fetched /\ curr_changelog = None)

AllRulesPassed ==
    /\ BothLoaded
    /\ invoked = testers
    /\ \A k \in 1..Len(outcomes) : outcomes[k].out = "pass"

\* C1: the final exit code is 0 only if both documents were loaded and all
\* four rules were run and passed; in every other run, interrupted runs and
\* unexpected errors included, it is 1.
C1_ExitCode ==
    pc = "done" =>
        /\ exit_code \in {Some(0), Some(1)}
        /\ exit_code = Some(0) <=> AllRulesPassed

\* C2: TesterChangelogProperlyChanged.test passes exactly when every item of
\* prev exists in curr at the same index and is structurally equal to it;
\* otherwise it fails with the removed or the modified message; the items of
\* curr beyond len(prev.items) do not affect the result.
C2_NoRetroactiveEdits ==
    Len(rres) >= 1 =>
        LET r == rres[1]
            unchanged ==
                \A i \in 0..(Len(rprev.items) - 1) :
                    /\ i < Len(rcurr.items)
                    /\ At(rcurr.items, i) = At(rprev.items, i)
            shared == Take(rcurr.items, Min(Len(rprev.items), Len(rcurr.items)))
        IN  /\ r.out \in {"pass", "fail"}
            /\ r.out = "pass" <=> unchanged
            /\ r.out = "fail" => r.msg \in {MsgRemoved, MsgModified}
            /\ r = TesterChangelogProperlyChanged_test(rprev, Changelog(shared))

C2_Witness ==
    /\ Len(rres) >= 1
    /\ rres[1].out = "pass"
    /\ Len(rprev.items) = 2
    /\ Len(rcurr.items) > Len(rprev.items)
    /\ rcurr.items[3] # rcurr.items[2]

\* the lexicographic order on (major, minor, patch)
LexLess(a, b) ==
    \/ a.major < b.major
    \/ /\ a.major = b.major
       /\ \/ a.minor < b.minor
          \/ a.minor = b.minor /\ a.patch < b.patch

\* C3: when len(prev.items) <= len(curr.items), TesterNewChangelogItemsVersion
\* passes exactly when no item of curr at an index i with
\* max(len(prev.items), 1) <= i < len(curr.items) has a version less than the
\* version of the item at i - 1, in the order on (major, minor, patch).
C3_MonotonicNewVersions ==
    (Len(rres) >= 2 /\ Len(rprev.items) <= Len(rcurr.items)) =>
        LET r == rres[2]
            increasing ==
                \A i \in Max(Len(rprev.items), 1)..(Len(rcurr.items) - 1) :
                    ~LexLess(At(rcurr.items, i).version, At(rcurr.items, i - 1).version)
        IN  /\ r.out \in {"pass", "fail"}
            /\ r.out = "pass" <=> increasing

\* the first new item is lower than the last item of prev
C3_Witness ==
    /\ Len(rres) >= 2
    /\ Len(rprev.items) >= 1
    /\ Len(rcurr.items) > Len(rprev.items)
    /\ LexLess(At(rcurr.items, Len(rprev.items)).version,
               At(rcurr.items, Len(rprev.items) - 1).version)
    /\ rres[2].out = "fail"

NewItems == Drop(rcurr.items, Len(rprev.items))
HasEmptyText(item) == \E j \in 1..Len(item.sections) : item.sections[j].text = <<>>

\* C4 as stated: when len(prev.items) <= len(curr.items),
\* TesterNewChangelogSectionsHasText fails whenever some new item has a
\* section with empty text, whatever the other new items look like, and
\* passes when every section of every new item has text.
C4_AnyEmptySectionFails ==
    (Len(rres) >= 4 /\ Len(rprev.items) <= Len(rcurr.items)) =>
        LET someEmpty == \E i \in 1..Len(NewItems) : HasEmptyText(NewItems[i])
        IN  /\ someEmpty => rres[4].out = "fail"
            /\ ~someEmpty => rres[4].out = "pass"

\* C4 amended: the rule fails exactly when some new item has a section with
\* empty text and every new item before it has at least one section; it
\* passes exactly when every new item has at least one section and every
\* section of every new item has text; otherwise (a new item without
\* sections comes first) it raises its AssertionError and gives no result.
C4_NewSectionsHaveText ==
    (Len(rres) >= 4 /\ Len(rprev.items) <= Len(rcurr.items)) =>
        LET r == rres[4]
            emptyFirst ==
                \E i \in 1..Len(NewItems) :
                    /\ HasEmptyText(NewItems[i])
                    /\ \A j \in 1..(i - 1) : Len(NewItems[j].sections) > 0
            allText ==
                \A i \in 1..Len(NewItems) :
                    Len(NewItems[i].sections) > 0 /\ ~HasEmptyText(NewItems[i])
        IN  /\ r.out = "fail" <=> emptyFirst
            /\ r.out = "fail" => r.msg = MsgEmptySection
            /\ r.out = "pass" <=> allText
            /\ r.out = "assert" <=> (~emptyFirst /\ ~allText)

\* the rule fails on an empty section although a later new item has no section
C4_Witness ==
    /\ Len(rres) >= 4
    /\ Len(rprev.items) <= Len(rcurr.items)
    /\ rres[4].out = "fail"
    /\ \E i \in 1..Len(NewItems) : Len(NewItems[i].sections) = 0

\* C5: if a fetch returns None, no rule is ever invoked in that run, the
\* fatal failure is reported and the process ends with failure status.
C5_FetchFailureIsFatal ==
    /\ FetchFailed => invoked = <<>>
    /\ (pc = "done" /\ FetchFailed) =>
          /\ MsgCannotFetch \in Range(reported)
          /\ exit_code = Some(1)

\* C6 as stated: whenever both documents were loaded, all four rules are
\* attempted exactly once each in the fixed order, and every failure is
\* reported.
C6_AllRulesAttempted ==
    (pc = "done" /\ BothLoaded) =>
        /\ invoked = testers
        /\ \A k \in 1..Len(outcomes) :
              outcomes[k].out = "fail" => outcomes[k].msg \in Range(reported)

\* C6 amended: the rules attempted are always a prefix of the fixed order
\* (so each at most once, in order) and are attempted only when both
\* documents were loaded; every rule that returned failed has its message
\* reported; when both documents were loaded and the run is not aborted by
\* an external interrupt, all four rules are attempted, whatever the earlier
\* ones returned or raised.
C6_RulesDoNotShortCircuit ==
    /\ IsPrefix(invoked, testers)
    /\ Len(outcomes) = Len(invoked)
    /\ invoked # <<>> => BothLoaded
    /\ \A k \in 1..Len(outcomes) :
          outcomes[k].out = "fail" => outcomes[k].msg \in Range(reported)
    /\ (pc = "done" /\ BothLoaded /\ ~interrupted) => invoked = testers

\* the first rule failed, a later one was skipped, and all four were attempted
C6_Witness ==
    /\ pc = "done"
    /\ ~interrupted
    /\ Len(invoked) = 4
    /\ outcomes[1].out = "fail"
    /\ outcomes[2].out = "assert"
    /\ Len(reported) >= 1

\* a digit string python prints back unchanged: no leading zero
Canonical(d) == Len(d) = 1 \/ Head(d) # "0"
AllZero(p) == IntOf(p.major) = 0 /\ IntOf(p.minor) = 0 /\ IntOf(p.patch) = 0

FetchResult(w) == IF w = "prev" THEN prev_changelog ELSE curr_changelog
Last(s) == s[Len(s)]

\* C8 as stated: at most maxRetries attempts; another attempt follows an
\* attempt exactly when it failed (network failure or any parse failure) and
\* fewer than maxRetries were made; nothing follows an attempt that yields a
\* Document; failure is returned only after maxRetries failed attempts.
C8_RetryOnAnyFailure ==
    \A w \in fetched :
        LET log == fetchLog[w]
        IN  /\ Len(log) <= MaxRetries
            /\ \A i \in 1..(Len(log) - 1) : log[i] \in {"raise", "none"}
            /\ Last(log) \in {"raise", "none"} => Len(log) = MaxRetries
            /\ FetchResult(w) = None => Len(log) = MaxRetries

\* C8 amended: at most maxRetries attempts; another attempt follows an
\* attempt exactly when it raised an exception (a network failure or a fault
\* inside parse) and fewer than maxRetries were made; nothing follows the
\* first attempt that does not raise, whether parse gave a Document or None;
\* failure is returned after maxRetries raising attempts or right after the
\* first attempt whose parse returned None.
C8_RetryOnException ==
    \A w \in {"prev", "curr"} :
        LET log == fetchLog[w]
        IN  /\ Len(log) <= MaxRetries
            /\ \A i \in 1..(Len(log) - 1) : log[i] = "raise"
            /\ (Fetching = w /\ pc \in {"fetch_prev", "fetch_curr"}) =>
                  /\ attempts = Len(log)
                  /\ (~flag /\ attempts < MaxRetries)
                        <=> (log = <<>> \/ (Last(log) = "raise" /\ Len(log) < MaxRetries))
            /\ w \in fetched =>
                  /\ Len(log) >= 1
                  /\ Last(log) = "raise" => Len(log) = MaxRetries
                  /\ FetchResult(w) = None <=> Last(log) \in {"raise", "none"}

\* a fetch returned None after fewer than maxRetries attempts
C8_Witness ==
    /\ "prev" \in fetched
    /\ prev_changelog = None
    /\ fetchLog["prev"] = <<"raise", "none">>

\* a heading line that violates the grammar
HeadingViolation(data) ==
    \E i \in 1..Len(data) :
        LET before(kind) == \E j \in 1..(i - 1) : data[j].k = kind
        IN  \/ data[i].k = "title" /\ before("title")
            \/ data[i].k = "item" /\ (~before("title") \/ ~data[i].match)
            \/ /\ data[i].k = "section"
               /\ \/ ~before("title")
                  \/ ~before("item")
                  \/ ~data[i].match
                  \/ Upper(data[i].type) \notin ChangelogSectionType

\* C9: parse returns None, without raising, for every text that contains a
\* heading violation.
C9_ViolationsReturnNone ==
    (ppc = "done" /\ HeadingViolation(pdata)) => pres = Return(None)

\* C10: whenever a rule is skipped by its AssertionError, an earlier rule has
\* already failed and reported its failure, so the run does not end with
\* exit code 0.
C10_SkipImpliesEarlierFailure ==
    /\ \A k \in 1..Len(outcomes) :
          outcomes[k].out = "assert" =>
              \E j \in 1..(k - 1) :
                  /\ outcomes[j].out = "fail"
                  /\ outcomes[j].msg \in Range(reported)
    /\ (pc = "done" /\ \E k \in 1..Len(outcomes) : outcomes[k].out = "assert")
          => exit_code = Some(1)

\* only the last rule was skipped: a new item without section
C10_Witness ==
    /\ pc = "done"
    /\ Len(outcomes) = 4
    /\ outcomes[1].out = "pass"
    /\ outcomes[2].out = "pass"
    /\ outcomes[3].out = "fail"
    /\ outcomes[4].out = "assert"
    /\ exit_code = Some(1)

====
